---- MODULE Spec2Model ----
(***************************************************************************)
(* Location-ranking engine of the cafe/startup recommender:                *)
(*   - MaximumFlowNetwork (add_edge, bfs, edmonds_karp)                    *)
(*       src/data_collector_final_updated.py, src/realistic_flow_network.py*)
(*   - FilterManager, ParetoOptimizer, ObjectiveCalculator.normalize and   *)
(*     CafeLocationOptimizer.recommend_locations       src/main__.py       *)
(***************************************************************************)
EXTENDS Integers, Sequences, FiniteSets, TLC

VARIABLES
    \* ---- MaximumFlowNetwork -------------------------------------------
    graph,            \* graph[u][v]: inserted capacity, 0 = no entry
    residual_graph,   \* residual_graph[u][v]: residual capacity
    adj,              \* adj[u]: keys of residual_graph[u] in insertion order
    nodes,            \* self.nodes
    edge_count,       \* self.edge_count
    total_capacity,   \* self.total_capacity
    \* ---- one run of edmonds_karp --------------------------------------
    ek_pc,            \* "build" | "running" | "done"
    calls,            \* number of edmonds_karp calls started on this network
    max_flow,         \* local max_flow (the returned scalar once done)
    flow_dict,        \* local flow_dict, 0 = no entry
    path,             \* local path of the last augmentation
    path_flow,        \* local path_flow of the last augmentation
    returned,         \* what the edmonds_karp calls returned, oldest first
    flow_analysis,    \* analyze_flow: flow_analysis['areas'] (<<>> before any)
    \* ---- DataStore, NetworkAnalyzer and Config of the optimizer ---------
    sales_data,       \* DataStore.sales_data[dong]
    store_data,       \* DataStore.store_data[dong] (present = FALSE: no entry)
    subway_data,      \* DataStore.subway_data[dong]
    population_data,  \* DataStore.population_data[dong]
    inflow,           \* NetworkAnalyzer.calculate_inflow(dong)
    config_weights,   \* Config.weights
    \* ---- the last call on the optimizer and what it returned -----------
    op,               \* "none" | "apply_filters" | "recommend_locations"
    preferences,      \* the UserPreferences argument
    top_n,            \* the top_n argument
    candidates,       \* the candidate list handed to apply_filters
    filtered,         \* the list apply_filters returned
    relaxed,          \* recommend_locations: the candidates that are scored
    raw_objectives,   \* recommend_locations: all_objectives, after normalize ran
    normalized,       \* recommend_locations: normalized objectives
    pareto_optimal,   \* recommend_locations: what find_optimal returned
    weights,          \* recommend_locations: the adjusted weights
    scored,           \* recommend_locations: _calculate_final_scores result
    recommendations,  \* recommend_locations: the returned list
    runs,             \* recommend_locations calls so far
    previous,         \* what the run before returned (<<>> before any)
    \* ---- RealisticOptimizer._calculate_target_match ----------------------
    pop_data,         \* the pop_data argument
    targets,          \* the targets argument (a list, read with `in` only)
    target_match,     \* [called, value]: what the call returned
    \* ---- direct add_edge calls ------------------------------------------
    add_calls,        \* add_edge calls made so far
    last_add,         \* <<u, v, capacity>> of the last add_edge call
    add_result,       \* "none" | "returned" | "raised": how that call ended
    \* ---- recommend_locations, the choice after find_optimal ----------
    all_keys,         \* list(all_objectives.keys())
    found_optimal,    \* what find_optimal returned
    eligible,         \* [chosen, list]: pareto_optimal after the choice
    \* ---- DataCollector.collect_data and the network builders ------------
    collect_pc,       \* "idle" | "fetching" | "returned"
    areas,            \* the areas argument of collect_data
    task,             \* task[area]: state of the submitted fetch
    location_data,    \* collect_data: the local location_data
    locations,        \* the list handed to the network builder
    builder           \* "none" | "estimate" | "simple": the builder that ran

flowVars == <<graph, residual_graph, adj, nodes, edge_count, total_capacity,
              ek_pc, calls, max_flow, flow_dict, path, path_flow, returned,
              flow_analysis>>

storeVars == <<sales_data, store_data, subway_data, population_data, inflow,
               config_weights>>

callVars == <<op, preferences, top_n, candidates, filtered, relaxed,
              raw_objectives, normalized,
              pareto_optimal, weights, scored, recommendations, runs, previous>>

recVars == <<storeVars, callVars>>

targetVars == <<pop_data, targets, target_match>>

addVars == <<add_calls, last_add, add_result>>

collectVars == <<collect_pc, areas, task, location_data, locations, builder>>

eligibleVars == <<all_keys, found_optimal, eligible>>

vars == <<flowVars, recVars, targetVars, addVars, collectVars, eligibleVars>>

-----------------------------------------------------------------------------
(* Bounds *)

MaxEdges == 8        \* add_edge calls that insert an edge, per network
MaxCalls == 2        \* edmonds_karp calls per network

-----------------------------------------------------------------------------
(* Nodes and the edges the builder may insert.  The builders insert the    *)
(* SOURCE edges first, then the location-to-location edges, then the SINK  *)
(* edges; EdgePool lists the candidate edges in that order.                *)

Node == {"SOURCE", "A", "B", "C", "D", "SINK"}
NodeSeq == <<"SOURCE", "A", "B", "C", "D", "SINK">>
NoNode == "none"

EdgePool == << <<"SOURCE", "A">>, <<"SOURCE", "B">>, <<"SOURCE", "C">>,
               <<"A", "B">>, <<"C", "B">>, <<"A", "D">>,
               <<"A", "SINK">>, <<"B", "SINK">>, <<"D", "SINK">> >>

\* capacities handed to add_edge (the non-positive ones are dropped by it)
Caps == {0 - 1, 0, 5, 10}

Min(a, b) == IF a <= b THEN a ELSE b

RECURSIVE SumSeq(_, _, _)
\* sum of f[s[i]] for i in 1..n
SumSeq(f, s, n) == IF n = 0 THEN 0 ELSE f[s[n]] + SumSeq(f, s, n - 1)

InList(x, s) == \E i \in 1..Len(s) : s[i] = x

-----------------------------------------------------------------------------
(* Exact rational arithmetic for the ratios, normalized objectives, weights *)
(* and scores (Python floats in the source).  A rational is <<n, d>>, d > 0, *)
(* in lowest terms.                                                        *)

RECURSIVE GCD(_, _)
GCD(a, b) == IF b = 0 THEN a ELSE GCD(b, a % b)

Abs(x) == IF x < 0 THEN 0 - x ELSE x

Rat(n, d) ==
    LET g == GCD(Abs(n), d) IN
    IF g = 0 THEN <<0, 1>> ELSE <<n \div g, d \div g>>

Zero == <<0, 1>>
One == <<1, 1>>
Half == <<1, 2>>

RAdd(a, b) == Rat(a[1] * b[2] + b[1] * a[2], a[2] * b[2])
RSub(a, b) == Rat(a[1] * b[2] - b[1] * a[2], a[2] * b[2])
RMul(a, b) == Rat(a[1] * b[1], a[2] * b[2])
\* a / b for b > 0
RDiv(a, b) == Rat(a[1] * b[2], a[2] * b[1])
RLess(a, b) == a[1] * b[2] < b[1] * a[2]
RLeq(a, b) == a[1] * b[2] <= b[1] * a[2]
RMin(a, b) == IF RLeq(a, b) THEN a ELSE b

-----------------------------------------------------------------------------
(* MaximumFlowNetwork.add_edge *)

\* dict assignment d[k] = ...: a new key goes to the end, an old key stays
KeyInsert(keys, k) == IF InList(k, keys) THEN keys ELSE Append(keys, k)

AddEdgeGraph(g, u, v, capacity) == [g EXCEPT ![u][v] = capacity]

AddEdgeResidual(r, u, v, capacity) == [r EXCEPT ![u][v] = capacity]

AddEdgeAdj(a, u, v) ==
    LET a1 == [a EXCEPT ![u] = KeyInsert(a[u], v)]
    IN  [a1 EXCEPT ![v] = KeyInsert(a1[v], u)]

\* index in EdgePool of the last pool edge present in the graph (0 if none)
LastInserted ==
    LET S == {i \in 1..Len(EdgePool) : graph[EdgePool[i][1]][EdgePool[i][2]] > 0}
    IN  IF S = {} THEN 0 ELSE CHOOSE i \in S : \A j \in S : j <= i

\* mutation: the capacity is not tested before the edge is stored
add_edge_unguarded(u, v, capacity) ==
    /\ ek_pc = "build"
    /\ edge_count < MaxEdges
    /\ graph' = AddEdgeGraph(graph, u, v, capacity)
    /\ residual_graph' = AddEdgeResidual(residual_graph, u, v, capacity)
    /\ adj' = AddEdgeAdj(adj, u, v)
    /\ nodes' = nodes \cup {u, v}
    /\ edge_count' = edge_count + 1
    /\ total_capacity' = total_capacity + capacity
    /\ UNCHANGED <<ek_pc, calls, max_flow, flow_dict, path, path_flow, returned,
              flow_analysis>>

add_edge(u, v, capacity) ==
    /\ ek_pc = "build"
    /\ IF capacity <= 0
       THEN UNCHANGED <<graph, residual_graph, adj, nodes, edge_count,
                        total_capacity>>
       ELSE /\ edge_count < MaxEdges
            /\ graph' = AddEdgeGraph(graph, u, v, capacity)
            /\ residual_graph' = AddEdgeResidual(residual_graph, u, v, capacity)
            /\ adj' = AddEdgeAdj(adj, u, v)
            /\ nodes' = nodes \cup {u, v}
            /\ edge_count' = edge_count + 1
            /\ total_capacity' = total_capacity + capacity
    /\ UNCHANGED <<ek_pc, calls, max_flow, flow_dict, path, path_flow, returned,
              flow_analysis>>

-----------------------------------------------------------------------------
(* MaximumFlowNetwork.bfs: breadth-first search over residual_graph in key *)
(* order; returns as soon as the sink is reached.                          *)

NoParent == [n \in Node |-> NoNode]

\* mutation: an edge without residual capacity is traversed too
UsableZero(r, u, v) == r[u][v] >= 0

Usable(r, u, v) == r[u][v] > 0

RECURSIVE BfsLoop(_, _, _, _, _, _)
RECURSIVE BfsScan(_, _, _, _, _, _, _, _)
RECURSIVE BfsScanDepthFirst(_, _, _, _, _, _, _, _)

\* mutation: a discovered node goes to the front of the queue (depth first)
BfsScanDepthFirst(r, a, sink, u, i, queue, visited, parent) ==
    IF i > Len(a[u])
    THEN BfsLoop(r, a, sink, queue, visited, parent)
    ELSE LET v == a[u][i] IN
         IF v \notin visited /\ Usable(r, u, v)
         THEN IF v = sink
              THEN [found |-> TRUE, parent |-> [parent EXCEPT ![v] = u]]
              ELSE BfsScanDepthFirst(r, a, sink, u, i + 1, <<v>> \o queue,
                                     visited \cup {v}, [parent EXCEPT ![v] = u])
         ELSE BfsScanDepthFirst(r, a, sink, u, i + 1, queue, visited, parent)

BfsScan(r, a, sink, u, i, queue, visited, parent) ==
    IF i > Len(a[u])
    THEN BfsLoop(r, a, sink, queue, visited, parent)
    ELSE LET v == a[u][i] IN
         IF v \notin visited /\ Usable(r, u, v)
         THEN IF v = sink
              THEN [found |-> TRUE, parent |-> [parent EXCEPT ![v] = u]]
              ELSE BfsScan(r, a, sink, u, i + 1, Append(queue, v),
                           visited \cup {v}, [parent EXCEPT ![v] = u])
         ELSE BfsScan(r, a, sink, u, i + 1, queue, visited, parent)

BfsLoop(r, a, sink, queue, visited, parent) ==
    IF queue = <<>>
    THEN [found |-> FALSE, parent |-> parent]
    ELSE BfsScan(r, a, sink, Head(queue), 1, Tail(queue), visited, parent)

bfs(r, a, source, sink) == BfsLoop(r, a, sink, <<source>>, {source}, NoParent)

-----------------------------------------------------------------------------
(* MaximumFlowNetwork.edmonds_karp, one loop iteration per step *)

RECURSIVE TracePath(_, _, _)
\* the nodes from source to s along parent
TracePath(parent, source, s) ==
    IF s = source THEN <<source>>
    ELSE Append(TracePath(parent, source, parent[s]), s)

\* mutation: the residual of the edge into the sink instead of the minimum
PathMinLast(r, p, n) == r[p[n - 1]][p[n]]

RECURSIVE PathMin(_, _, _)
\* min of r[p[i]][p[i+1]] over the edges of p[1..n]
PathMin(r, p, n) ==
    IF n = 2 THEN r[p[1]][p[2]]
    ELSE Min(PathMin(r, p, n - 1), r[p[n - 1]][p[n]])

OnPath(p, u, v) == \E i \in 1..(Len(p) - 1) : p[i] = u /\ p[i + 1] = v

\* mutation: the reverse residual is not increased
UpdateResidualForwardOnly(r, p, pf) ==
    [u \in Node |-> [v \in Node |->
        r[u][v] - (IF OnPath(p, u, v) THEN pf ELSE 0)]]

\* residual_graph[u][v] -= path_flow; residual_graph[v][u] += path_flow
UpdateResidual(r, p, pf) ==
    [u \in Node |-> [v \in Node |->
        r[u][v] - (IF OnPath(p, u, v) THEN pf ELSE 0)
                + (IF OnPath(p, v, u) THEN pf ELSE 0)]]

\* mutation: the update loop misses the edge that leaves the source
UpdateFlowSkipFirst(f, p, pf) ==
    [u \in Node |-> [v \in Node |->
        f[u][v] + (IF OnPath(p, u, v) /\ u # p[1] THEN pf ELSE 0)]]

\* flow_dict[u][v] += path_flow
UpdateFlow(f, p, pf) ==
    [u \in Node |-> [v \in Node |->
        f[u][v] + (IF OnPath(p, u, v) THEN pf ELSE 0)]]

ZeroMatrix == [u \in Node |-> [v \in Node |-> 0]]

\* the call: parent = {}, max_flow = 0, flow_dict = defaultdict(...)
ek_start ==
    /\ ek_pc \in {"build", "done"}
    /\ calls < MaxCalls
    /\ ek_pc' = "running"
    /\ calls' = calls + 1
    /\ max_flow' = 0
    /\ flow_dict' = ZeroMatrix
    /\ path' = <<>>
    /\ path_flow' = 0
    /\ UNCHANGED <<graph, residual_graph, adj, nodes, edge_count, total_capacity,
                   returned, flow_analysis>>

\* one iteration of `while self.bfs(source, sink, parent)`
ek_augment ==
    /\ ek_pc = "running"
    /\ LET b == bfs(residual_graph, adj, "SOURCE", "SINK") IN
       /\ b.found
       /\ LET p == TracePath(b.parent, "SOURCE", "SINK")
              pf == PathMin(residual_graph, p, Len(p))
          IN  /\ path' = p
              /\ path_flow' = pf
              /\ residual_graph' = UpdateResidual(residual_graph, p, pf)
              /\ flow_dict' = UpdateFlow(flow_dict, p, pf)
              /\ max_flow' = max_flow + pf
    /\ UNCHANGED <<graph, adj, nodes, edge_count, total_capacity, ek_pc, calls,
                   returned, flow_analysis>>

\* DataCollector.analyze_flow, the per-location part

\* the names of the locations analyze_flow is given: those the network was
\* built from
AnalysedAreas ==
    IF builder = "none" THEN {"A", "B", "C", "D"}
    ELSE {locations[i].area_name : i \in 1..Len(locations)}

\* sum of flow_dict[other][area] over the keys other than SOURCE and area
FromOthers(f, area) ==
    SumSeq([other \in Node |->
               IF other \in {"SOURCE", area} THEN 0 ELSE f[other][area]],
           NodeSeq, Len(NodeSeq))

\* sum of flow_dict[area][other] over the keys other than SINK
ToOthers(f, area) ==
    SumSeq([other \in Node |-> IF other = "SINK" THEN 0 ELSE f[area][other]],
           NodeSeq, Len(NodeSeq))

\* mutation: only what comes from SOURCE counts as inflow
TotalInflowFromSource(f, area) == f["SOURCE"][area]

TotalInflow(f, area) == f["SOURCE"][area] + FromOthers(f, area)

AreaAnalysis(f, area) ==
    LET from_source == f["SOURCE"][area]
        outflow == f[area]["SINK"]
        total_inflow == TotalInflow(f, area)
        total_outflow == outflow + ToOthers(f, area)
    IN  [inflow |-> total_inflow, outflow |-> outflow,
         from_source |-> from_source, to_sink |-> outflow,
         from_others |-> FromOthers(f, area), to_others |-> ToOthers(f, area),
         efficiency |-> IF total_inflow > 0
                        THEN Rat(outflow, total_inflow) ELSE Zero,
         balance |-> total_inflow - total_outflow]

AnalyzeAreas(f, names) == [area \in names |-> AreaAnalysis(f, area)]

\* bfs returns False: return max_flow, dict(flow_dict); analyze_flow, which
\* made the call, fills flow_analysis['areas'] from it
ek_return ==
    /\ ek_pc = "running"
    /\ ~ bfs(residual_graph, adj, "SOURCE", "SINK").found
    /\ ek_pc' = "done"
    /\ returned' = Append(returned, <<max_flow, flow_dict>>)
    /\ flow_analysis' = AnalyzeAreas(flow_dict, AnalysedAreas)
    /\ UNCHANGED <<graph, residual_graph, adj, nodes, edge_count,
                   total_capacity, calls, max_flow, flow_dict, path, path_flow>>

-----------------------------------------------------------------------------
(* Specification of the flow network *)

FlowInit ==
    /\ graph = ZeroMatrix
    /\ residual_graph = ZeroMatrix
    /\ adj = [n \in Node |-> <<>>]
    /\ nodes = {}
    /\ edge_count = 0
    /\ total_capacity = 0
    /\ ek_pc = "build"
    /\ calls = 0
    /\ max_flow = 0
    /\ flow_dict = ZeroMatrix
    /\ path = <<>>
    /\ path_flow = 0
    /\ returned = <<>>
    /\ flow_analysis = <<>>

AddEdgeStep ==
    \E i \in 1..Len(EdgePool), c \in Caps :
        /\ i > LastInserted
        /\ add_edge(EdgePool[i][1], EdgePool[i][2], c)

-----------------------------------------------------------------------------
(* Bounds of the optimizer model *)

NumDongs == 3        \* administrative districts in the data store
MaxActivePrefs == 2  \* preferences that differ from the UserPreferences default
MaxTopN == 2         \* largest top_n passed to recommend_locations
MaxRuns == 2         \* calls of recommend_locations on one optimizer

-----------------------------------------------------------------------------
(* Enums and UserPreferences *)

GenderTarget == {"FEMALE_CENTERED", "MALE_CENTERED", "BALANCED", "ANY"}
CompetitionLevel == {"BLUE_OCEAN", "MODERATE", "COMPETITIVE", "ANY"}
SubwayPreference == {"REQUIRED", "PREFERRED", "ANY"}
PeakTime == {"MORNING", "LUNCH", "AFTERNOON", "EVENING", "BALANCED"}
WeekdayPreference == {"WEEKDAY", "WEEKEND", "BALANCED"}
PriceRange == {"LOW", "MID_LOW", "MID", "MID_HIGH", "HIGH", "ANY"}

UserPreferences ==
    [min_revenue |-> 2000, max_revenue |-> 50000, gender_target |-> "ANY",
     competition |-> "ANY", subway |-> "ANY", peak_time |-> "BALANCED",
     weekday_preference |-> "BALANCED", price_range |-> "ANY",
     min_stores |-> 3]

\* the answers to the minimum-store-count question that the calls use
MinStoresChoices == {3, 10}

\* every value a preference field can take
PrefChoices ==
    ({"gender_target"} \X GenderTarget) \cup ({"competition"} \X CompetitionLevel)
    \cup ({"subway"} \X SubwayPreference) \cup ({"peak_time"} \X PeakTime)
    \cup ({"weekday_preference"} \X WeekdayPreference)
    \cup ({"price_range"} \X PriceRange) \cup ({"min_stores"} \X MinStoresChoices)

RECURSIVE PrefsWith(_)
\* the preferences that set at most k fields of the default UserPreferences
PrefsWith(k) ==
    IF k = 0 THEN {UserPreferences}
    ELSE {[p EXCEPT ![c[1]] = c[2]] : p \in PrefsWith(k - 1), c \in PrefChoices}

\* the preferences a call may pass
PrefsFamily == PrefsWith(MaxActivePrefs)

-----------------------------------------------------------------------------
(* Config *)

ObjectiveNames == <<"profitability", "stability", "accessibility",
                    "efficiency", "morning_efficiency", "weekday_ratio">>

\* Config.weights
ConfigWeights ==
    [profitability |-> Rat(30, 100), stability |-> Rat(20, 100),
     accessibility |-> Rat(15, 100), efficiency |-> Rat(15, 100),
     morning_efficiency |-> Rat(10, 100), weekday_ratio |-> Rat(10, 100)]

\* Config.filter_criteria
competition_criteria ==
    [BLUE_OCEAN |-> <<0, 10>>, MODERATE |-> <<11, 30>>, COMPETITIVE |-> <<31, 50>>]

\* the upper end of 'high' is float('inf'): no upper limit
price_range_criteria ==
    [LOW |-> <<0, 5000>>, MID_LOW |-> <<5001, 8000>>, MID |-> <<8001, 12000>>,
     MID_HIGH |-> <<12001, 15000>>, HIGH |-> <<15001, 0 - 1>>]

time_ratio_significant == <<2, 10>>
gender_female_centered == <<6, 10>>
gender_male_centered == <<4, 10>>
gender_balanced == << <<4, 10>>, <<6, 10>> >>
weekday_ratio_weekday == <<7, 10>>
weekday_ratio_weekend == <<5, 10>>

-----------------------------------------------------------------------------
(* DataStore contents.  Each district carries one of the profiles below.   *)

Dongs == 1..NumDongs
\* the keys of DataStore.sales_data in insertion order
DongSeq == [i \in 1..NumDongs |-> i]
\* DataStore.dong_mapping: every district has a DongInfo; `name` is the
\* alphabetical rank of DongInfo.name, the names sort opposite to the codes
dong_mapping ==
    [d \in Dongs |-> [present |-> TRUE, name |-> NumDongs + 1 - d]]

SalesProfiles ==
    << [revenue |-> 30000000, sales_count |-> 7500, avg_price |-> 4000,
        female_revenue |-> 7, male_revenue |-> 3,
        weekday_revenue |-> 8, weekend_revenue |-> 2,
        morning_revenue |-> 9000000, lunch_revenue |-> 3000000,
        afternoon_revenue |-> 3000000, evening_revenue |-> 3000000,
        night_revenue |-> 0],
       [revenue |-> 30000000, sales_count |-> 3000, avg_price |-> 10000,
        female_revenue |-> 3, male_revenue |-> 7,
        weekday_revenue |-> 4, weekend_revenue |-> 6,
        morning_revenue |-> 3000000, lunch_revenue |-> 9000000,
        afternoon_revenue |-> 3000000, evening_revenue |-> 3000000,
        night_revenue |-> 0],
       [revenue |-> 0, sales_count |-> 0, avg_price |-> 0,
        female_revenue |-> 0, male_revenue |-> 0,
        weekday_revenue |-> 0, weekend_revenue |-> 0,
        morning_revenue |-> 0, lunch_revenue |-> 0,
        afternoon_revenue |-> 0, evening_revenue |-> 0,
        night_revenue |-> 0],
       [revenue |-> 480000000, sales_count |-> 30000, avg_price |-> 16000,
        female_revenue |-> 5, male_revenue |-> 5,
        weekday_revenue |-> 6, weekend_revenue |-> 4,
        morning_revenue |-> 24000000, lunch_revenue |-> 72000000,
        afternoon_revenue |-> 192000000, evening_revenue |-> 192000000,
        night_revenue |-> 0] >>

StoreProfiles ==
    << [present |-> TRUE, store_count |-> 5, close_pct |-> 10],
       [present |-> TRUE, store_count |-> 20, close_pct |-> 20],
       [present |-> FALSE, store_count |-> 0, close_pct |-> 0],
       [present |-> TRUE, store_count |-> 40, close_pct |-> 0] >>

SubwayProfiles == <<TRUE, FALSE, TRUE, FALSE>>

PopulationProfiles ==
    << [present |-> TRUE, female_20_50 |-> 6, male_20_50 |-> 4],
       [present |-> FALSE, female_20_50 |-> 0, male_20_50 |-> 0],
       [present |-> TRUE, female_20_50 |-> 7, male_20_50 |-> 3],
       [present |-> FALSE, female_20_50 |-> 0, male_20_50 |-> 0] >>

InflowProfiles == <<15000, 0, 0, 24000>>

ProfileIds == 1..Len(SalesProfiles)

\* the DataStore as the operators below read it
DataStore ==
    [sales |-> sales_data, stores |-> store_data, subway |-> subway_data,
     population |-> population_data]

-----------------------------------------------------------------------------
(* SalesData, StoreData, PopulationData, DataStore accessors *)

\* SalesData.female_ratio
sales_female_ratio(sd) ==
    LET total == sd.female_revenue + sd.male_revenue
    IN  IF total > 0 THEN Rat(sd.female_revenue, total) ELSE Half

\* SalesData.weekday_ratio
sales_weekday_ratio(sd) ==
    LET total == sd.weekday_revenue + sd.weekend_revenue
    IN  IF total > 0 THEN Rat(sd.weekday_revenue, total) ELSE <<7, 10>>

\* SalesData.get_time_ratio
get_time_ratio(sd, time_slot) ==
    IF sd.revenue = 0 THEN Zero
    ELSE Rat(CASE time_slot = "morning" -> sd.morning_revenue
               [] time_slot = "lunch" -> sd.lunch_revenue
               [] time_slot = "afternoon" -> sd.afternoon_revenue
               [] time_slot = "evening" -> sd.evening_revenue
               [] time_slot = "night" -> sd.night_revenue
               [] OTHER -> 0,
             sd.revenue)

\* PopulationData.female_ratio
population_female_ratio(pd) ==
    IF pd.female_20_50 + pd.male_20_50 = 0 THEN Half
    ELSE Rat(pd.female_20_50, pd.female_20_50 + pd.male_20_50)

\* 1000 / (1 + ln(store_count)), rounded, for the store counts of the profiles
LogFactor(store_count) ==
    CASE store_count <= 1 -> 1000
      [] store_count = 5 -> 383
      [] store_count = 20 -> 250
      [] store_count = 40 -> 213
      [] OTHER -> 200

\* StoreData.stability_score
stability_score(st) ==
    IF st.store_count = 0 THEN Zero
    ELSE RMul(Rat(100 - st.close_pct, 100), Rat(LogFactor(st.store_count), 1000))

get_store_count(ds, dong) ==
    IF ds.stores[dong].present THEN ds.stores[dong].store_count ELSE 0

has_subway_access(ds, dong) == ds.subway[dong]

get_female_ratio(ds, dong) ==
    LET sd == ds.sales[dong] IN
    IF sd.female_revenue + sd.male_revenue > 0 THEN sales_female_ratio(sd)
    ELSE IF ds.population[dong].present
         THEN population_female_ratio(ds.population[dong])
         ELSE Half

-----------------------------------------------------------------------------
(* FilterManager *)

InRange(x, range) == range[1] <= x /\ (range[2] < 0 \/ x <= range[2])

\* the criterion of each filter for one district
RevenueOk(p, ds, dong) ==
    /\ p.min_revenue * 10000 <= ds.sales[dong].revenue
    /\ ds.sales[dong].revenue <= p.max_revenue * 10000

GenderOk(p, ds, dong) ==
    LET female_ratio == get_female_ratio(ds, dong) IN
    CASE p.gender_target = "FEMALE_CENTERED" ->
             RLeq(gender_female_centered, female_ratio)
      [] p.gender_target = "MALE_CENTERED" ->
             RLeq(female_ratio, gender_male_centered)
      [] p.gender_target = "BALANCED" ->
             /\ RLeq(gender_balanced[1], female_ratio)
             /\ RLeq(female_ratio, gender_balanced[2])
      [] OTHER -> FALSE

CompetitionOk(p, ds, dong) ==
    IF p.competition \in {"BLUE_OCEAN", "MODERATE", "COMPETITIVE"}
    THEN InRange(get_store_count(ds, dong), competition_criteria[p.competition])
    ELSE FALSE

SubwayOk(p, ds, dong) == has_subway_access(ds, dong)

time_mapping ==
    [MORNING |-> "morning", LUNCH |-> "lunch", AFTERNOON |-> "afternoon",
     EVENING |-> "evening"]

PeakTimeOk(p, ds, dong) ==
    RLeq(time_ratio_significant,
         get_time_ratio(ds.sales[dong], time_mapping[p.peak_time]))

WeekdayOk(p, ds, dong) ==
    LET weekday_ratio == sales_weekday_ratio(ds.sales[dong]) IN
    CASE p.weekday_preference = "WEEKDAY" ->
             RLeq(weekday_ratio_weekday, weekday_ratio)
      [] p.weekday_preference = "WEEKEND" ->
             RLeq(weekday_ratio, weekday_ratio_weekend)
      [] OTHER -> FALSE

PriceOk(p, ds, dong) ==
    InRange(ds.sales[dong].avg_price, price_range_criteria[p.price_range])

MinStoresOk(p, ds, dong) == get_store_count(ds, dong) >= p.min_stores

\* mutation of OrInput: the filter returns what its criterion keeps
OrInputKept(kept, cands) == kept

\* `return filtered if filtered else candidates`
OrInput(kept, cands) == IF kept # <<>> THEN kept ELSE cands

_filter_by_revenue(cands, p, ds) ==
    SelectSeq(cands, LAMBDA dong : RevenueOk(p, ds, dong))

_filter_by_gender(cands, p, ds) ==
    IF p.gender_target = "ANY" THEN cands
    ELSE OrInput(SelectSeq(cands, LAMBDA dong : GenderOk(p, ds, dong)), cands)

_filter_by_competition(cands, p, ds) ==
    IF p.competition = "ANY" THEN cands
    ELSE OrInput(SelectSeq(cands, LAMBDA dong : CompetitionOk(p, ds, dong)), cands)

\* mutation of _filter_by_subway: the districts are taken from the data
\* store's subway table instead of the candidate list
_filter_by_subway_table(cands, p, ds) ==
    IF p.subway = "REQUIRED"
    THEN SelectSeq(DongSeq, LAMBDA dong : SubwayOk(p, ds, dong))
    ELSE cands

_filter_by_subway(cands, p, ds) ==
    IF p.subway = "REQUIRED"
    THEN SelectSeq(cands, LAMBDA dong : SubwayOk(p, ds, dong))
    ELSE cands

_filter_by_peak_time(cands, p, ds) ==
    IF p.peak_time = "BALANCED" THEN cands
    ELSE OrInput(SelectSeq(cands, LAMBDA dong : PeakTimeOk(p, ds, dong)), cands)

_filter_by_weekday(cands, p, ds) ==
    IF p.weekday_preference = "BALANCED" THEN cands
    ELSE OrInput(SelectSeq(cands, LAMBDA dong : WeekdayOk(p, ds, dong)), cands)

\* mutation of _filter_by_price: the early return for PriceRange.ANY is
\* missing and the lookup of the range falls back to 'low'
_filter_by_price_no_any(cands, p, ds) ==
    LET q == IF p.price_range = "ANY" THEN [p EXCEPT !.price_range = "LOW"] ELSE p
    IN  OrInput(SelectSeq(cands, LAMBDA dong : PriceOk(q, ds, dong)), cands)

_filter_by_price(cands, p, ds) ==
    IF p.price_range = "ANY" THEN cands
    ELSE OrInput(SelectSeq(cands, LAMBDA dong : PriceOk(p, ds, dong)), cands)

\* mutation: the minimum-store-count filter falls back to its input
_filter_by_min_stores_fail_open(cands, p, ds) ==
    OrInput(SelectSeq(cands, LAMBDA dong : MinStoresOk(p, ds, dong)), cands)

_filter_by_min_stores(cands, p, ds) ==
    SelectSeq(cands, LAMBDA dong : MinStoresOk(p, ds, dong))

\* the filter chain of apply_filters, in its order
FilterNames == <<"revenue", "gender", "competition", "subway", "peak_time",
                 "weekday", "price", "min_stores">>

Filter(name, cands, p, ds) ==
    CASE name = "revenue" -> _filter_by_revenue(cands, p, ds)
      [] name = "gender" -> _filter_by_gender(cands, p, ds)
      [] name = "competition" -> _filter_by_competition(cands, p, ds)
      [] name = "subway" -> _filter_by_subway(cands, p, ds)
      [] name = "peak_time" -> _filter_by_peak_time(cands, p, ds)
      [] name = "weekday" -> _filter_by_weekday(cands, p, ds)
      [] name = "price" -> _filter_by_price(cands, p, ds)
      [] name = "min_stores" -> _filter_by_min_stores(cands, p, ds)

RECURSIVE ApplyChain(_, _, _, _, _)
\* the first n filters of `order` applied one after the other
ApplyChain(order, n, cands, p, ds) ==
    IF n = 0 THEN cands
    ELSE Filter(order[n], ApplyChain(order, n - 1, cands, p, ds), p, ds)

\* mutation of ApplyFilters: the chain stops before the last filter
ApplyFiltersButLast(cands, p, ds) ==
    ApplyChain(FilterNames, Len(FilterNames) - 1, cands, p, ds)

ApplyFilters(cands, p, ds) == ApplyChain(FilterNames, Len(FilterNames), cands, p, ds)

-----------------------------------------------------------------------------
(* ObjectiveCalculator *)

ObjectiveSet == {ObjectiveNames[i] : i \in 1..Len(ObjectiveNames)}

SeqRange(s) == {s[i] : i \in 1..Len(s)}

calculate(sd, st, subway_access, network_efficiency) ==
    [profitability |-> Rat(sd.avg_price, 1),
     stability |-> IF st.present THEN stability_score(st) ELSE Zero,
     accessibility |-> IF subway_access THEN One ELSE Zero,
     efficiency |-> RMin(network_efficiency, One),
     morning_efficiency |-> get_time_ratio(sd, "morning"),
     weekday_ratio |-> sales_weekday_ratio(sd)]

\* keys of the dict _calculate_all_objectives returns, in insertion order
ObjectiveKeys(ds) == SelectSeq(DongSeq, LAMBDA dong : ds.sales[dong].revenue > 0)

_calculate_all_objectives(ds, inflows) ==
    [dong \in SeqRange(ObjectiveKeys(ds)) |->
        calculate(ds.sales[dong], ds.stores[dong], has_subway_access(ds, dong),
                  IF inflows[dong] > 100
                  THEN Rat(ds.sales[dong].sales_count, inflows[dong])
                  ELSE Zero)]

RMinOf(S) == CHOOSE v \in S : \A w \in S : RLeq(v, w)
RMaxOf(S) == CHOOSE v \in S : \A w \in S : RLeq(w, v)

\* mutation: a key on which all locations tie is mapped to 0
RescaleTieZero(value, min_val, max_val) ==
    IF RLess(min_val, max_val)
    THEN RDiv(RSub(value, min_val), RSub(max_val, min_val))
    ELSE Zero

\* mutation: the distance to the maximum is rescaled (the scale is inverted)
RescaleInverted(value, min_val, max_val) ==
    IF RLess(min_val, max_val)
    THEN RDiv(RSub(max_val, value), RSub(max_val, min_val))
    ELSE Half

\* (value - min_val) / (max_val - min_val) if max_val > min_val, else 0.5
Rescale(value, min_val, max_val) ==
    IF RLess(min_val, max_val)
    THEN RDiv(RSub(value, min_val), RSub(max_val, min_val))
    ELSE Half

normalize(all_objectives) ==
    [dong \in DOMAIN all_objectives |->
        [obj_name \in ObjectiveSet |->
            LET values == {all_objectives[d][obj_name] : d \in DOMAIN all_objectives}
            IN  Rescale(all_objectives[dong][obj_name],
                        RMinOf(values), RMaxOf(values))]]

\* the argument of normalize after the call: the method writes to the new
\* dict `normalized` only
NormalizeArgument(all_objectives) == all_objectives

-----------------------------------------------------------------------------
(* ParetoOptimizer *)

ParetoKeys == {"profitability", "stability", "accessibility", "efficiency"}

\* mutation of dominates: a candidate also dominates its equals
dominatesOrEqual(obj1, obj2) ==
    \A key \in ParetoKeys : RLeq(obj2[key], obj1[key])

\* mutation of dominates: the loop runs over every key of the vectors
dominatesAllKeys(obj1, obj2) ==
    /\ \A key \in ObjectiveSet : ~RLess(obj1[key], obj2[key])
    /\ \E key \in ObjectiveSet : RLess(obj2[key], obj1[key])

dominates(obj1, obj2) ==
    /\ \A key \in ParetoKeys : ~RLess(obj1[key], obj2[key])
    /\ \E key \in ParetoKeys : RLess(obj2[key], obj1[key])

\* `keys` is the iteration order of the dict `objectives`
find_optimal(objectives, keys) ==
    SelectSeq(keys, LAMBDA dong1 :
        ~\E dong2 \in DOMAIN objectives :
            dong1 # dong2 /\ dominates(objectives[dong2], objectives[dong1]))

-----------------------------------------------------------------------------
(* CafeLocationOptimizer *)

\* `if len(pareto_optimal) < 20`
ParetoMinSize == 20

\* mutation: a Pareto set of exactly the minimum size is replaced too
EligibleSetInclusive(found, keys) ==
    IF Len(found) <= ParetoMinSize THEN keys ELSE found

\* pareto_optimal after `if len(pareto_optimal) < 20: pareto_optimal =
\* list(all_objectives.keys())`
EligibleSet(found, keys) ==
    IF Len(found) < ParetoMinSize THEN keys ELSE found

\* the weights dict after the three preference branches, before the division
AdjustedWeights(cfg, p) ==
    LET w1 == IF p.subway = "REQUIRED"
              THEN [cfg EXCEPT !.accessibility = Rat(25, 100),
                               !.profitability = Rat(25, 100)]
              ELSE IF p.subway = "PREFERRED"
                   THEN [cfg EXCEPT !.accessibility = Rat(20, 100)]
                   ELSE cfg
        w2 == IF p.peak_time = "MORNING"
              THEN [w1 EXCEPT !.morning_efficiency = Rat(20, 100),
                              !.efficiency = Rat(10, 100)]
              ELSE w1
    IN  IF p.weekday_preference = "WEEKDAY"
        THEN [w2 EXCEPT !.weekday_ratio = Rat(20, 100),
                        !.morning_efficiency = Rat(5, 100)]
        ELSE w2

RECURSIVE RSumWeights(_, _)
\* sum(weights.values()) over the first n objective names
RSumWeights(w, n) ==
    IF n = 0 THEN Zero ELSE RAdd(RSumWeights(w, n - 1), w[ObjectiveNames[n]])

\* mutation of _adjust_weights_by_preferences: the division by the total is
\* left out
_adjust_weights_unnormalized(cfg, p) == AdjustedWeights(cfg, p)

\* weights.copy(), the three branches, then {k: v / total}
_adjust_weights_by_preferences(cfg, p) ==
    LET w == AdjustedWeights(cfg, p)
        total == RSumWeights(w, Len(ObjectiveNames))
    IN  [k \in ObjectiveSet |-> RDiv(w[k], total)]

\* mutation of ConfigAfterAdjust: the returned weights are stored in Config
ConfigStoresAdjusted(cfg, p) == _adjust_weights_by_preferences(cfg, p)

\* Config.weights after _adjust_weights_by_preferences: the method works on
\* `self.config.weights.copy()`
ConfigAfterAdjust(cfg, p) == cfg

RECURSIVE Score(_, _, _, _)
\* sum(normalized.get(dong, {}).get(obj, 0) * weight) over the first n names
Score(dong, norm, w, n) ==
    IF n = 0 THEN Zero
    ELSE RAdd(Score(dong, norm, w, n - 1),
              RMul(IF dong \in DOMAIN norm THEN norm[dong][ObjectiveNames[n]]
                   ELSE Zero,
                   w[ObjectiveNames[n]]))

\* mutation of KeepsPlace: an entry also moves ahead of its equals
KeepsPlaceStrict(earlier, later) == RLess(later[2], earlier[2])

\* list.sort(key=score, reverse=True) leaves `earlier` ahead of `later`
KeepsPlace(earlier, later) == RLeq(later[2], earlier[2])

RECURSIVE InsertSorted(_, _, _)
\* x placed into the sorted list s behind its first i entries or further back
InsertSorted(s, x, i) ==
    IF i < Len(s) /\ KeepsPlace(s[i + 1], x)
    THEN InsertSorted(s, x, i + 1)
    ELSE SubSeq(s, 1, i) \o <<x>> \o SubSeq(s, i + 1, Len(s))

RECURSIVE SortScores(_, _)
\* the first n entries of `scores` sorted by score, descending, stable
SortScores(scores, n) ==
    IF n = 0 THEN <<>>
    ELSE InsertSorted(SortScores(scores, n - 1), scores[n], 0)

_calculate_final_scores(cands, norm, w) ==
    LET scores == [i \in 1..Len(cands) |->
                      <<cands[i], Score(cands[i], norm, w, Len(ObjectiveNames))>>]
    IN  SortScores(scores, Len(scores))

RECURSIVE _create_recommendations(_, _, _)
\* the RecommendationResult list for the first n scored candidates
_create_recommendations(scored_candidates, ds, n) ==
    IF n = 0 THEN <<>>
    ELSE LET dong_code == scored_candidates[n][1]
             rest == _create_recommendations(scored_candidates, ds, n - 1)
             store_count == IF ds.stores[dong_code].present
                               /\ ds.stores[dong_code].store_count # 0
                            THEN ds.stores[dong_code].store_count
                            ELSE 1
         IN  IF ~dong_mapping[dong_code].present THEN rest
             ELSE Append(rest,
                         [dong_code |-> dong_code,
                          dong_name |-> dong_mapping[dong_code].name,
                          score |-> scored_candidates[n][2],
                          store_count |-> store_count,
                          subway_access |-> has_subway_access(ds, dong_code)])

\* scored_candidates[:top_n]
Take(s, n) == SubSeq(s, 1, Min(n, Len(s)))

-----------------------------------------------------------------------------
(* Calls on the optimizer *)

\* every sub-list of the data store's districts
CandidateLists ==
    {c \in UNION {[1..k -> Dongs] : k \in 0..NumDongs} :
        \A i \in 1..(Len(c) - 1) : c[i] < c[i + 1]}

apply_filters(c, p) ==
    /\ op = "none"
    /\ op' = "apply_filters"
    /\ preferences' = p
    /\ candidates' = c
    /\ filtered' = ApplyFilters(c, p, DataStore)
    /\ UNCHANGED <<storeVars, top_n, relaxed, raw_objectives, normalized,
                   pareto_optimal,
                   weights, scored, recommendations, runs, previous>>

\* the locals of recommend_locations at its return; `keys` empty is the
\* early `return []`
RecommendLocals(ds, inflows, cfg, p, n) ==
    LET all_objectives == _calculate_all_objectives(ds, inflows)
        keys == ObjectiveKeys(ds)
        norm == normalize(all_objectives)
        found == find_optimal(norm, keys)
        pareto == EligibleSet(found, keys)
        kept == ApplyFilters(pareto, p, ds)
        cands == IF Len(kept) < n
                 THEN SelectSeq(pareto, LAMBDA dong : get_store_count(ds, dong) >= 1)
                 ELSE kept
        w == _adjust_weights_by_preferences(cfg, p)
        scores == _calculate_final_scores(cands, norm, w)
        top == Take(scores, n)
    IN  [keys |-> keys, raw |-> NormalizeArgument(all_objectives),
         normalized |-> norm, found |-> found,
         pareto_optimal |-> pareto, filtered |-> kept, candidates |-> cands,
         weights |-> w, scored_candidates |-> scores,
         result |-> _create_recommendations(top, ds, Len(top))]

recommend_locations(p, n) ==
    /\ op \in {"none", "recommend_locations"}
    /\ runs < MaxRuns
    /\ runs > 0 => (p = preferences /\ n = top_n)
    /\ op' = "recommend_locations"
    /\ preferences' = p
    /\ top_n' = n
    /\ runs' = runs + 1
    /\ previous' = recommendations
    /\ \E r \in {RecommendLocals(DataStore, inflow, config_weights, p, n)} :
           IF r.keys = <<>>
           THEN /\ recommendations' = <<>>
                /\ UNCHANGED <<config_weights, candidates, filtered, relaxed,
                               raw_objectives, normalized, pareto_optimal,
                               weights, scored>>
           ELSE /\ raw_objectives' = r.raw
                /\ normalized' = r.normalized
                /\ pareto_optimal' = r.found
                /\ candidates' = r.pareto_optimal
                /\ filtered' = r.filtered
                /\ relaxed' = r.candidates
                /\ weights' = r.weights
                /\ config_weights' = ConfigAfterAdjust(config_weights, p)
                /\ scored' = r.scored_candidates
                /\ recommendations' = r.result
    /\ UNCHANGED <<sales_data, store_data, subway_data, population_data, inflow>>

\* the optimizer before any call, its data store loaded with `load`
RecInit(load) ==
    /\ sales_data = [d \in Dongs |-> SalesProfiles[load[d]]]
    /\ store_data = [d \in Dongs |-> StoreProfiles[load[d]]]
    /\ subway_data = [d \in Dongs |-> SubwayProfiles[load[d]]]
    /\ population_data = [d \in Dongs |-> PopulationProfiles[load[d]]]
    /\ inflow = [d \in Dongs |-> InflowProfiles[load[d]]]
    /\ config_weights = ConfigWeights
    /\ op = "none"
    /\ preferences = UserPreferences
    /\ top_n = 0
    /\ candidates = <<>>
    /\ filtered = <<>>
    /\ relaxed = <<>>
    /\ raw_objectives = <<>>
    /\ normalized = <<>>
    /\ pareto_optimal = <<>>
    /\ weights = ConfigWeights
    /\ scored = <<>>
    /\ recommendations = <<>>
    /\ runs = 0
    /\ previous = <<>>

-----------------------------------------------------------------------------
(* RealisticOptimizer._calculate_target_match *)

\* the customer segments the method knows, in the order it tests them, and
\* one it does not know
Segments == <<"worker", "student", "resident", "tourist">>
UnknownSegment == "family"

\* percentages of the population data (age shares, resident shares)
Shares == {0, 40}

PopData ==
    [age_10s : Shares, age_20s : Shares, age_30s : {20},
     age_40s : {10}, resident_ratio : {30, 70}, non_resident_ratio : {30, 70}]

TargetLists == SUBSET (SeqRange(Segments) \cup {UnknownSegment})

\* the term each segment adds to `score`
SegmentScore(pd, segment) ==
    CASE segment = "worker" ->
             RAdd(RMul(RAdd(RAdd(RMul(Rat(pd.age_20s, 1), Rat(3, 10)),
                                 RMul(Rat(pd.age_30s, 1), Rat(3, 10))),
                            RMul(Rat(pd.age_40s, 1), Rat(2, 10))),
                       Rat(8, 10)),
                  RMul(Rat(pd.non_resident_ratio, 1), Rat(2, 10)))
      [] segment = "student" ->
             RAdd(RMul(Rat(pd.age_10s, 1), Rat(2, 10)),
                  RMul(Rat(pd.age_20s, 1), Rat(8, 10)))
      [] segment = "resident" -> Rat(pd.resident_ratio, 1)
      [] segment = "tourist" -> Rat(pd.non_resident_ratio, 1)

RECURSIVE TargetScore(_, _, _)
\* <<score, count>> after the first n `if ... in targets` blocks
TargetScore(pd, tg, n) ==
    IF n = 0 THEN <<Zero, 0>>
    ELSE LET before == TargetScore(pd, tg, n - 1) IN
         IF Segments[n] \in tg
         THEN <<RAdd(before[1], SegmentScore(pd, Segments[n])), before[2] + 1>>
         ELSE before

\* `... if count > 0 else 0`
NoTargetMatch == Zero

_calculate_target_match(pd, tg) ==
    LET sc == TargetScore(pd, tg, Len(Segments))
    IN  IF sc[2] > 0 THEN RDiv(sc[1], Rat(sc[2], 1)) ELSE NoTargetMatch

TargetIdle ==
    /\ pop_data = CHOOSE pd \in PopData : TRUE
    /\ targets = {}
    /\ target_match = [called |-> FALSE, value |-> Zero]

TargetInit ==
    /\ pop_data \in PopData
    /\ targets \in TargetLists
    /\ target_match = [called |-> FALSE, value |-> Zero]

calculate_target_match ==
    /\ ~target_match.called
    /\ target_match' = [called |-> TRUE,
                        value |-> _calculate_target_match(pop_data, targets)]
    /\ UNCHANGED <<pop_data, targets>>

-----------------------------------------------------------------------------
(* Direct calls of MaximumFlowNetwork.add_edge, as a caller makes them:    *)
(* any edge of AddPool, any capacity of Caps, repeats included.            *)

MaxAddCalls == 3     \* add_edge calls per network

\* a pair of opposite edges, an edge into it and an edge out of it
AddPool == << <<"A", "B">>, <<"B", "A">>, <<"SOURCE", "A">>, <<"B", "SINK">> >>

\* mutation: a negative capacity is rejected with an error
AddEdgeOutcomeRejecting(capacity) ==
    IF capacity < 0 THEN "raised" ELSE "returned"

\* how add_edge ends: it has no raise statement, only `return` and falling
\* off its end
AddEdgeOutcome(capacity) == "returned"

AddIdle ==
    /\ add_calls = 0
    /\ last_add = <<NoNode, NoNode, 0>>
    /\ add_result = "none"

add_edge_call(u, v, capacity) ==
    /\ add_calls < MaxAddCalls
    /\ add_edge(u, v, capacity)
    /\ add_calls' = add_calls + 1
    /\ last_add' = <<u, v, capacity>>
    /\ add_result' = AddEdgeOutcome(capacity)

-----------------------------------------------------------------------------
(* The network builders: DataCollector._build_flow_network (capacities     *)
(* estimated from the locations' data, every one of them floored) and      *)
(* RealisticFlowBuilder._build_simple_network (capacities taken from the   *)
(* data as they are).                                                      *)

MaxLocations == 3    \* locations handed to a builder directly

AreaNames == {"A", "B", "C", "D"}

\* DataCollector.adjacency_map: area -> the areas listed next to it
adjacency_map ==
    [a \in AreaNames |-> CASE a = "A" -> {"B"}
                           [] a = "B" -> {"A"}
                           [] a = "C" -> {"D"}
                           [] OTHER -> {}]

\* what a fetch delivers: a busy area and one whose figures are all 0
LocProfiles ==
    << [population_max |-> 50000, non_resident_ratio |-> 50,
        area_payment_count |-> 9000],
       [population_max |-> 0, non_resident_ratio |-> 50,
        area_payment_count |-> 0] >>

Location == [area_name : AreaNames, profile : 1..Len(LocProfiles)]

population_max(loc) == LocProfiles[loc.profile].population_max
non_resident_ratio(loc) == LocProfiles[loc.profile].non_resident_ratio
area_payment_count(loc) == LocProfiles[loc.profile].area_payment_count

RECURSIVE LocationLists(_)
\* the lists of at most k locations with distinct names
LocationLists(k) ==
    IF k = 0 THEN {<<>>}
    ELSE LET shorter == LocationLists(k - 1) IN
         shorter \cup
         UNION { { Append(l, loc) :
                     loc \in {c \in Location :
                                \A i \in 1..Len(l) : l[i].area_name # c.area_name} }
                 : l \in {x \in shorter : Len(x) = k - 1} }

Max(a, b) == IF a >= b THEN a ELSE b

\* mutation of EmptyNet: the two terminals are nodes from the start
EmptyNetWithTerminals ==
    [graph |-> ZeroMatrix, residual_graph |-> ZeroMatrix,
     adj |-> [n \in Node |-> <<>>], nodes |-> {"SOURCE", "SINK"},
     edge_count |-> 0, total_capacity |-> 0]

\* MaximumFlowNetwork(): empty dicts, nodes = set(), both counters 0
EmptyNet ==
    [graph |-> ZeroMatrix, residual_graph |-> ZeroMatrix,
     adj |-> [n \in Node |-> <<>>], nodes |-> {},
     edge_count |-> 0, total_capacity |-> 0]

\* add_edge on a network held as a value
AddEdgeNet(net, u, v, capacity) ==
    IF capacity <= 0 THEN net
    ELSE [graph |-> AddEdgeGraph(net.graph, u, v, capacity),
          residual_graph |-> AddEdgeResidual(net.residual_graph, u, v, capacity),
          adj |-> AddEdgeAdj(net.adj, u, v),
          nodes |-> net.nodes \cup {u, v},
          edge_count |-> net.edge_count + 1,
          total_capacity |-> net.total_capacity + capacity]

\* max(5000, int(pop_max * non_resident * 0.5)), non_resident = ratio / 100
SourceCapacity(loc) ==
    Max(5000, (population_max(loc) * non_resident_ratio(loc)) \div 200)

\* max(500, int(min(pop1, pop2) * 0.1)), times 5 for adjacent areas, else 2
PairCapacity(loc1, loc2) ==
    LET base_capacity ==
            Max(500, Min(population_max(loc1), population_max(loc2)) \div 10)
    IN  IF \/ loc2.area_name \in adjacency_map[loc1.area_name]
           \/ loc1.area_name \in adjacency_map[loc2.area_name]
        THEN base_capacity * 5
        ELSE base_capacity * 2

\* mutation: the SINK edge takes the plain share, without the floor
SinkCapacityNoFloor(loc) == (area_payment_count(loc) * 4) \div 10

\* max(2000, int(payment_count * 0.4))
SinkCapacity(loc) == Max(2000, (area_payment_count(loc) * 4) \div 10)

RECURSIVE SourceEdges(_, _, _)
\* loop 1, its first n iterations
SourceEdges(net, locs, n) ==
    IF n = 0 THEN net
    ELSE AddEdgeNet(SourceEdges(net, locs, n - 1),
                    "SOURCE", locs[n].area_name, SourceCapacity(locs[n]))

RECURSIVE PairEdges(_, _, _, _)
\* loop 2 from the pair (i, j) on: every pair i < j, both directions
PairEdges(net, locs, i, j) ==
    IF i > Len(locs) THEN net
    ELSE IF j > Len(locs) THEN PairEdges(net, locs, i + 1, i + 2)
    ELSE LET area1 == locs[i].area_name
             area2 == locs[j].area_name
             capacity == PairCapacity(locs[i], locs[j])
         IN  PairEdges(AddEdgeNet(AddEdgeNet(net, area1, area2, capacity),
                                  area2, area1, capacity),
                       locs, i, j + 1)

RECURSIVE SinkEdges(_, _, _)
\* loop 3, its first n iterations
SinkEdges(net, locs, n) ==
    IF n = 0 THEN net
    ELSE AddEdgeNet(SinkEdges(net, locs, n - 1),
                    locs[n].area_name, "SINK", SinkCapacity(locs[n]))

_build_flow_network(locs) ==
    SinkEdges(PairEdges(SourceEdges(EmptyNet, locs, Len(locs)), locs, 1, 2),
              locs, Len(locs))

RECURSIVE SimpleEdges(_, _, _)
\* the loop of _build_simple_network, its first n iterations:
\* capacity_in = int(pop_max * 0.1), capacity_out = int(payment_count / 30)
SimpleEdges(net, locs, n) ==
    IF n = 0 THEN net
    ELSE LET area == locs[n].area_name
             capacity_in == population_max(locs[n]) \div 10
             capacity_out == area_payment_count(locs[n]) \div 30
         IN  AddEdgeNet(AddEdgeNet(SimpleEdges(net, locs, n - 1),
                                   "SOURCE", area, capacity_in),
                        area, "SINK", capacity_out)

_build_simple_network(locs) == SimpleEdges(EmptyNet, locs, Len(locs))

\* the network variables take the built network
Install(net) ==
    /\ graph' = net.graph
    /\ residual_graph' = net.residual_graph
    /\ adj' = net.adj
    /\ nodes' = net.nodes
    /\ edge_count' = net.edge_count
    /\ total_capacity' = net.total_capacity
    /\ UNCHANGED <<ek_pc, calls, max_flow, flow_dict, path, path_flow, returned,
              flow_analysis>>

\* a caller hands a location list to a builder
build_estimate(locs) ==
    /\ collect_pc = "idle"
    /\ builder = "none"
    /\ Install(_build_flow_network(locs))
    /\ locations' = locs
    /\ builder' = "estimate"
    /\ UNCHANGED <<collect_pc, areas, task, location_data>>

build_simple(locs) ==
    /\ collect_pc = "idle"
    /\ builder = "none"
    /\ Install(_build_simple_network(locs))
    /\ locations' = locs
    /\ builder' = "simple"
    /\ UNCHANGED <<collect_pc, areas, task, location_data>>

-----------------------------------------------------------------------------
(* DataCollector.collect_data: one fetch per area on a pool of MaxWorkers  *)
(* threads, the results taken as they complete, then the network.          *)

MaxWorkers == 5

\* the areas a caller may name; the service has no data on the last two
AreaPool == <<"A", "B", "C", "D", "E", "F">>

\* how a fetch of the area may end: `data` is a dict, `none` is None, and
\* `exception` makes future.result() raise
Outcomes(a) ==
    IF a \in AreaNames THEN {"data", "none"} ELSE {"none", "exception"}

\* the dict _collect_area_data returns for the area
Fetched(a) == [area_name |-> a, profile |-> IF a \in {"A", "C"} THEN 1 ELSE 2]

Running == {a \in SeqRange(AreaPool) : task[a] = "running"}

\* a future that as_completed has yielded, by how its fetch had ended
TakenStates == {"taken_data", "taken_none", "taken_exception"}

Taken(outcome) ==
    CASE outcome = "data" -> "taken_data"
      [] outcome = "none" -> "taken_none"
      [] outcome = "exception" -> "taken_exception"

\* mutation: the except branch throws away what was collected so far
AfterResultResetOnError(collected, outcome, a) ==
    CASE outcome = "data" -> Append(collected, Fetched(a))
      [] outcome = "none" -> collected
      [] outcome = "exception" -> <<>>

\* location_data after the loop body: `if data: location_data.append(data)`;
\* the except branch only logs
AfterResult(collected, outcome, a) ==
    IF outcome = "data" THEN Append(collected, Fetched(a)) ELSE collected

\* mutation: the loop over the futures ends at the first result taken
JoinedAtFirst == \E a \in SeqRange(AreaPool) : task[a] \in TakenStates

\* as_completed has yielded every future, and the pool has shut down
Joined == \A a \in SeqRange(AreaPool) : task[a] \in {"absent"} \cup TakenStates

CollectIdle ==
    /\ collect_pc = "idle"
    /\ areas = <<>>
    /\ task = [a \in SeqRange(AreaPool) |-> "absent"]
    /\ location_data = <<>>
    /\ locations = <<>>
    /\ builder = "none"

\* the call, up to the submission of every fetch
collect_data(ar) ==
    /\ collect_pc = "idle"
    /\ builder = "none"
    /\ collect_pc' = "fetching"
    /\ areas' = ar
    /\ task' = [a \in SeqRange(AreaPool) |->
                   IF InList(a, ar) THEN "queued" ELSE "absent"]
    /\ location_data' = <<>>
    /\ UNCHANGED <<locations, builder>>

\* a free worker takes the oldest fetch of the queue
fetch_start ==
    /\ collect_pc = "fetching"
    /\ Cardinality(Running) < MaxWorkers
    /\ \E i \in 1..Len(areas) :
          /\ task[areas[i]] = "queued"
          /\ \A j \in 1..(i - 1) : task[areas[j]] # "queued"
          /\ task' = [task EXCEPT ![areas[i]] = "running"]
    /\ UNCHANGED <<collect_pc, areas, location_data, locations, builder>>

\* _collect_area_data ends
fetch_finish ==
    /\ collect_pc = "fetching"
    /\ \E a \in Running :
          \E outcome \in Outcomes(a) : task' = [task EXCEPT ![a] = outcome]
    /\ UNCHANGED <<collect_pc, areas, location_data, locations, builder>>

\* one iteration of `for future in as_completed(futures)`
collect_result ==
    /\ collect_pc = "fetching"
    /\ \E a \in SeqRange(AreaPool) :
          /\ task[a] \in {"data", "none", "exception"}
          /\ task' = [task EXCEPT ![a] = Taken(task[a])]
          /\ location_data' = AfterResult(location_data, task[a], a)
    /\ UNCHANGED <<collect_pc, areas, locations, builder>>

\* after the `with` block: the network, if any location was collected
collect_return ==
    /\ collect_pc = "fetching"
    /\ Joined
    /\ collect_pc' = "returned"
    /\ IF location_data # <<>>
       THEN /\ Install(_build_flow_network(location_data))
            /\ locations' = location_data
            /\ builder' = "estimate"
       ELSE UNCHANGED <<flowVars, locations, builder>>
    /\ UNCHANGED <<areas, task, location_data>>

-----------------------------------------------------------------------------
(* recommend_locations, the choice of the eligible set, on district lists   *)
(* long enough for a Pareto set of the minimum size.  Districts are         *)
(* numbered; find_optimal returns a sub-list of the keys in their order.    *)

MaxDistricts == 21   \* districts with objectives

EligibleIdle ==
    /\ all_keys = <<>>
    /\ found_optimal = <<>>
    /\ eligible = [chosen |-> FALSE, list |-> <<>>]

EligibleInit ==
    /\ \E n \in 1..MaxDistricts :
          /\ all_keys = [i \in 1..n |-> i]
          /\ \E i \in 1..n, j \in 1..n :
                /\ i <= j
                /\ found_optimal = [k \in 1..(j - i + 1) |-> i + k - 1]
    /\ eligible = [chosen |-> FALSE, list |-> <<>>]

choose_eligible ==
    /\ ~eligible.chosen
    /\ eligible' = [chosen |-> TRUE, list |-> EligibleSet(found_optimal, all_keys)]
    /\ UNCHANGED <<all_keys, found_optimal>>

OthersIdle == TargetIdle /\ AddIdle /\ CollectIdle /\ EligibleIdle

-----------------------------------------------------------------------------
(* Specifications *)

\* the flow network next to an optimizer that is never called
FlowNext ==
    \/ AddEdgeStep /\ UNCHANGED <<recVars, targetVars, eligibleVars, addVars, collectVars>>
    \/ ek_start /\ UNCHANGED <<recVars, targetVars, eligibleVars, addVars, collectVars>>
    \/ ek_augment /\ UNCHANGED <<recVars, targetVars, eligibleVars, addVars, collectVars>>
    \/ ek_return /\ UNCHANGED <<recVars, targetVars, eligibleVars, addVars, collectVars>>

FlowSpecInit == FlowInit /\ RecInit([d \in Dongs |-> 1]) /\ OthersIdle

SpecFlow == FlowSpecInit /\ [][FlowNext]_vars

\* the optimizer, over every data store, next to an empty flow network
RecNext ==
    \/ /\ op = "none"
       /\ \E c \in CandidateLists, p \in PrefsFamily :
              apply_filters(c, p)
              /\ UNCHANGED <<flowVars, targetVars, eligibleVars, addVars, collectVars>>
    \/ /\ runs < MaxRuns
       /\ \E p \in PrefsFamily, n \in 1..MaxTopN :
              recommend_locations(p, n)
              /\ UNCHANGED <<flowVars, targetVars, eligibleVars, addVars, collectVars>>

\* CafeLocationOptimizer() after load_data
RecSpecInit ==
    FlowInit /\ OthersIdle /\ \E load \in [Dongs -> ProfileIds] : RecInit(load)

SpecRec == RecSpecInit /\ [][RecNext]_vars

TargetNext ==
    calculate_target_match
        /\ UNCHANGED <<flowVars, recVars, addVars, collectVars, eligibleVars>>

TargetSpecInit ==
    /\ FlowInit /\ RecInit([d \in Dongs |-> 1])
    /\ TargetInit /\ AddIdle /\ CollectIdle /\ EligibleIdle

SpecTarget == TargetSpecInit /\ [][TargetNext]_vars

EligibleNext ==
    choose_eligible
        /\ UNCHANGED <<flowVars, recVars, targetVars, addVars, collectVars>>

EligibleSpecInit ==
    /\ FlowInit /\ RecInit([d \in Dongs |-> 1])
    /\ TargetIdle /\ AddIdle /\ CollectIdle /\ EligibleInit

SpecEligible == EligibleSpecInit /\ [][EligibleNext]_vars

EdgesNext ==
    \E i \in 1..Len(AddPool), c \in Caps :
        /\ add_edge_call(AddPool[i][1], AddPool[i][2], c)
        /\ UNCHANGED <<recVars, targetVars, eligibleVars, collectVars>>

EdgesSpecInit == FlowInit /\ RecInit([d \in Dongs |-> 1]) /\ OthersIdle

SpecEdges == EdgesSpecInit /\ [][EdgesNext]_vars

CollectNext ==
    \/ /\ collect_pc = "idle"
       /\ \E k \in 0..Len(AreaPool) :
             /\ collect_data(SubSeq(AreaPool, 1, k))
             /\ UNCHANGED <<flowVars, recVars, targetVars, eligibleVars, addVars>>
    \/ fetch_start /\ UNCHANGED <<flowVars, recVars, targetVars, eligibleVars, addVars>>
    \/ fetch_finish /\ UNCHANGED <<flowVars, recVars, targetVars, eligibleVars, addVars>>
    \/ collect_result /\ UNCHANGED <<flowVars, recVars, targetVars, eligibleVars, addVars>>
    \/ collect_return /\ UNCHANGED <<recVars, targetVars, eligibleVars, addVars>>
    \/ /\ collect_pc = "idle"
       /\ builder = "none"
       /\ \E locs \in LocationLists(MaxLocations) :
             build_estimate(locs) /\ UNCHANGED <<recVars, targetVars, eligibleVars, addVars>>
    \/ /\ collect_pc = "idle"
       /\ builder = "none"
       /\ \E locs \in LocationLists(MaxLocations) :
             build_simple(locs) /\ UNCHANGED <<recVars, targetVars, eligibleVars, addVars>>
    \/ /\ builder # "none"
       /\ ek_start
       /\ UNCHANGED <<recVars, targetVars, eligibleVars, addVars, collectVars>>
    \/ /\ builder # "none"
       /\ ek_augment
       /\ UNCHANGED <<recVars, targetVars, eligibleVars, addVars, collectVars>>
    \/ /\ builder # "none"
       /\ ek_return
       /\ UNCHANGED <<recVars, targetVars, eligibleVars, addVars, collectVars>>

CollectSpecInit == FlowInit /\ RecInit([d \in Dongs |-> 1]) /\ OthersIdle

SpecCollect == CollectSpecInit /\ [][CollectNext]_vars


-----------------------------------------------------------------------------
(* Properties of the solved flow *)

InFlow(f, n) == SumSeq([x \in Node |-> f[x][n]], NodeSeq, Len(NodeSeq))
OutFlow(f, n) == SumSeq([y \in Node |-> f[n][y]], NodeSeq, Len(NodeSeq))

\* capacity of the cut (S, Node \ S) in the inserted capacities
CutCapacity(g, S) ==
    SumSeq([u \in Node |->
               IF u \in S
               THEN SumSeq([v \in Node |-> IF v \in S THEN 0 ELSE g[u][v]],
                           NodeSeq, Len(NodeSeq))
               ELSE 0],
           NodeSeq, Len(NodeSeq))

Cuts == {S \in SUBSET Node : "SOURCE" \in S /\ "SINK" \notin S}

MinCut(g) ==
    LET caps == {CutCapacity(g, S) : S \in Cuts}
    IN  CHOOSE c \in caps : \A d \in caps : c <= d

Returned == ek_pc = "done"

\* C1: after edmonds_karp returns, every node other than SOURCE and SINK
\* has as much flow entering it as leaving it in the returned flow_dict.
C1_FlowConservation ==
    Returned =>
        \A n \in Node \ {"SOURCE", "SINK"} :
            InFlow(flow_dict, n) = OutFlow(flow_dict, n)

\* a first solve has returned after an augmenting path went through the
\* reverse residual edge B -> A
C1_Witness ==
    /\ Returned
    /\ calls = 1
    /\ flow_dict["B"]["A"] > 0
    /\ InFlow(flow_dict, "A") > 0

\* C2: after edmonds_karp returns, the routed flow of every ordered pair is
\* at most the inserted capacity of that pair (0 when there is no edge).
C2_CapacityRespect ==
    Returned => \A u \in Node, v \in Node : flow_dict[u][v] <= graph[u][v]

\* the network of the example: SOURCE->A(10)->SINK(10), SOURCE->B(5)->SINK(5)
ExampleGraph ==
    [u \in Node |-> [v \in Node |->
        IF <<u, v>> \in {<<"SOURCE", "A">>, <<"A", "SINK">>} THEN 10
        ELSE IF <<u, v>> \in {<<"SOURCE", "B">>, <<"B", "SINK">>} THEN 5
        ELSE 0]]

\* C3: the max_flow returned by the solve of a built network equals the
\* minimum SOURCE-SINK cut capacity of the inserted capacities; on the
\* example network it is 15.
C3_MaxFlowOptimal ==
    (Returned /\ calls = 1) =>
        /\ max_flow = MinCut(graph)
        /\ (graph = ExampleGraph => max_flow = 15)

\* the example network has been solved
C3_Witness == Returned /\ calls = 1 /\ graph = ExampleGraph /\ max_flow > 0

\* C4: every iteration of the loop either ends it (bfs found no path) or
\* pushes path_flow >= 1 and strictly increases max_flow, which never
\* exceeds the inserted total capacity; so a started solve always returns.
C4_StepProgress ==
    [][ek_pc = "running" =>
          \/ /\ ek_pc' = "done"
             /\ ~ bfs(residual_graph, adj, "SOURCE", "SINK").found
          \/ /\ ek_pc' = "running"
             /\ path_flow' >= 1
             /\ max_flow' = max_flow + path_flow'
             /\ max_flow' <= total_capacity]_vars

\* a solve that needed three augmentations has returned
C4_Witness == Returned /\ calls = 1 /\ max_flow >= 15 /\ path_flow = 5

\* the step is one augmentation of a running solve
Augmentation == ek_pc = "running" /\ ek_pc' = "running"

RECURSIVE ReachWithin(_, _)
\* the nodes a path of at most k edges of positive residual capacity
\* reaches from SOURCE
ReachWithin(r, k) ==
    IF k = 0 THEN {"SOURCE"}
    ELSE LET near == ReachWithin(r, k - 1) IN
         near \cup {v \in Node : \E u \in near : r[u][v] > 0}

\* the number of edges of a shortest SOURCE-to-SINK path of positive
\* residual capacity (0 if there is none)
ShortestLength(r) ==
    LET lengths == {k \in 1..(Cardinality(Node) - 1) : "SINK" \in ReachWithin(r, k)}
    IN  IF lengths = {} THEN 0
        ELSE CHOOSE k \in lengths : \A l \in lengths : k <= l

\* C26: the path of every augmentation is a simple path from SOURCE to SINK
\* whose edges all have positive residual capacity before the augmentation,
\* no such path has fewer edges, and the amount pushed is the least residual
\* capacity on the path.
C26_ShortestAugmentingPath ==
    [][Augmentation =>
          LET p == path'
              n == Len(path')
          IN  /\ n >= 2
              /\ p[1] = "SOURCE"
              /\ p[n] = "SINK"
              /\ \A i \in 1..n, j \in 1..n : p[i] = p[j] => i = j
              /\ \A i \in 1..(n - 1) : residual_graph[p[i]][p[i + 1]] > 0
              /\ n - 1 = ShortestLength(residual_graph)
              /\ \E i \in 1..(n - 1) : path_flow' = residual_graph[p[i]][p[i + 1]]
              /\ \A i \in 1..(n - 1) : path_flow' <= residual_graph[p[i]][p[i + 1]]
              /\ max_flow' = max_flow + path_flow']_vars

\* an augmentation along a three-edge path happened after a two-edge one
C26_Witness ==
    /\ ek_pc = "running"
    /\ Len(path) = 4
    /\ max_flow > path_flow

\* C27: while a solve runs (and after it), every residual capacity is >= 0
\* and residual_graph[u][v] + residual_graph[v][u] = graph[u][v] + graph[v][u]
\* for every pair of nodes; an augmentation takes path_flow from the residual
\* of each edge of its path and adds it to the residual of the reverse edge.
C27_ResidualPairSum ==
    /\ [](\A u \in Node, v \in Node :
             /\ residual_graph[u][v] >= 0
             /\ residual_graph[u][v] + residual_graph[v][u]
                    = graph[u][v] + graph[v][u])
    /\ [][Augmentation =>
             \A i \in 1..(Len(path') - 1) :
                LET u == path'[i]
                    v == path'[i + 1]
                IN  /\ residual_graph'[u][v] = residual_graph[u][v] - path_flow'
                    /\ residual_graph'[v][u] = residual_graph[v][u] + path_flow']_vars

\* an augmentation has gone back along the reverse of an inserted edge
C27_Witness ==
    /\ ek_pc = "running"
    /\ \E i \in 1..(Len(path) - 1) :
          /\ graph[path[i]][path[i + 1]] = 0
          /\ graph[path[i + 1]][path[i]] > 0

\* C28: a second edmonds_karp call on the same network returns the max flow
\* and the flow assignment the first call returned.
C28_SecondSolveSame ==
    Len(returned) >= 2 => returned[2] = returned[1]

\* C25: after the flow analysis every location has an entry in the
\* per-location output; its efficiency is the flow to SINK divided by the
\* total inflow (from SOURCE and from other locations), 0 when the total
\* inflow is 0, and lies in [0, 1].
C25_EfficiencyInUnitInterval ==
    Returned =>
        /\ DOMAIN flow_analysis = AnalysedAreas
        /\ \A area \in AnalysedAreas :
              LET others == Node \ {"SOURCE", area}
                  total == flow_dict["SOURCE"][area]
                             + SumSeq([n \in Node |-> IF n \in others
                                                      THEN flow_dict[n][area]
                                                      ELSE 0],
                                      NodeSeq, Len(NodeSeq))
                  e == flow_analysis[area].efficiency
              IN  /\ total > 0 => e[1] * total = flow_dict[area]["SINK"] * e[2]
                  /\ total = 0 => e = Zero
                  /\ RLeq(Zero, e)
                  /\ RLeq(e, One)

\* an analysed location passes part of its inflow on to another location,
\* one converts all of its inflow, and one has no inflow
C25_Witness ==
    /\ Returned
    /\ \E a \in AnalysedAreas :
          /\ RLess(Zero, flow_analysis[a].efficiency)
          /\ RLess(flow_analysis[a].efficiency, One)
    /\ \E a \in AnalysedAreas :
          flow_analysis[a].efficiency = One /\ flow_analysis[a].from_others > 0
    /\ \E a \in AnalysedAreas : flow_analysis[a].inflow = 0

-----------------------------------------------------------------------------
(* Properties of the filter chain *)

FilterSet == SeqRange(FilterNames)

\* the filters that end in `return filtered if filtered else candidates`
FailOpenFilters == {"gender", "competition", "peak_time", "weekday", "price"}

\* the filter has a criterion to apply under preferences p
Applies(name, p) ==
    CASE name = "gender" -> p.gender_target # "ANY"
      [] name = "competition" -> p.competition # "ANY"
      [] name = "subway" -> p.subway = "REQUIRED"
      [] name = "peak_time" -> p.peak_time # "BALANCED"
      [] name = "weekday" -> p.weekday_preference # "BALANCED"
      [] name = "price" -> p.price_range # "ANY"
      [] OTHER -> TRUE

Criterion(name, p, ds, dong) ==
    CASE name = "revenue" -> RevenueOk(p, ds, dong)
      [] name = "gender" -> GenderOk(p, ds, dong)
      [] name = "competition" -> CompetitionOk(p, ds, dong)
      [] name = "subway" -> SubwayOk(p, ds, dong)
      [] name = "peak_time" -> PeakTimeOk(p, ds, dong)
      [] name = "weekday" -> WeekdayOk(p, ds, dong)
      [] name = "price" -> PriceOk(p, ds, dong)
      [] name = "min_stores" -> MinStoresOk(p, ds, dong)

\* what the strict application of the filter's criterion keeps
StrictKeep(name, cands, p, ds) ==
    SelectSeq(cands, LAMBDA dong : Criterion(name, p, ds, dong))

MeetsAll(p, ds, dong) ==
    \A name \in FilterSet : Applies(name, p) => Criterion(name, p, ds, dong)

FiltersCalled == op # "none" /\ candidates # <<>>

\* C5 (as stated): each of the eight filters, applied to a non-empty candidate
\* list on which its criterion keeps no candidate, returns the list unchanged,
\* and apply_filters never returns an empty list for a non-empty one.
C5_AllFiltersFailOpen ==
    FiltersCalled =>
        /\ \A name \in FilterSet :
              (Applies(name, preferences)
               /\ StrictKeep(name, candidates, preferences, DataStore) = <<>>)
              => Filter(name, candidates, preferences, DataStore) = candidates
        /\ filtered # <<>>

\* C5 (amended): the five filters gender, competition, peak time,
\* weekday/weekend and price range return what their criterion keeps, or the
\* unchanged input when it keeps no candidate; the revenue, subway (REQUIRED)
\* and minimum-store-count filters return exactly what their criterion keeps,
\* even when that is nothing.
C5_FailOpenFilters ==
    FiltersCalled =>
        \A name \in FilterSet :
            Applies(name, preferences) =>
                LET kept == StrictKeep(name, candidates, preferences, DataStore)
                    out == Filter(name, candidates, preferences, DataStore)
                IN  IF name \in FailOpenFilters /\ kept = <<>>
                    THEN out = candidates
                    ELSE out = kept

\* a call in which a fail-open filter's criterion keeps none of several
\* candidates, and the chain returns them
C5_Witness ==
    /\ op = "apply_filters"
    /\ Len(candidates) >= 2
    /\ filtered = candidates
    /\ \E name \in FailOpenFilters :
          /\ Applies(name, preferences)
          /\ StrictKeep(name, candidates, preferences, DataStore) = <<>>

RECURSIVE ChainLevel(_, _, _, _)
\* <<F, list>>: `list` results from applying the k filters F in some order
ChainLevel(k, cands, p, ds) ==
    IF k = 0 THEN {<<{}, cands>>}
    ELSE UNION {{<<fl[1] \cup {name}, Filter(name, fl[2], p, ds)>> :
                    name \in FilterSet \ fl[1]} :
                fl \in ChainLevel(k - 1, cands, p, ds)}

\* the results of the eight filters over all their permutations
ChainResults(cands, p, ds) ==
    {fl[2] : fl \in ChainLevel(Len(FilterNames), cands, p, ds)}

\* C6 (as stated): the eight filters applied in any permutation return the
\* same candidate set as apply_filters.
C6_OrderIndependent ==
    op = "apply_filters" =>
        \A result \in ChainResults(candidates, preferences, DataStore) :
            SeqRange(result) = SeqRange(filtered)

\* C6 (amended): when at least one candidate meets the criterion of every
\* filter, the eight filters applied in any permutation return what
\* apply_filters returns: the candidates that meet every criterion.
C6_OrderIndependentWhenSatisfiable ==
    (/\ op = "apply_filters"
     /\ \E i \in 1..Len(candidates) : MeetsAll(preferences, DataStore, candidates[i]))
    => /\ filtered = SelectSeq(candidates,
                         LAMBDA dong : MeetsAll(preferences, DataStore, dong))
       /\ ChainResults(candidates, preferences, DataStore) = {filtered}

\* a call with two preference filters at work, in which some but not all
\* candidates meet every criterion
C6_Witness ==
    /\ op = "apply_filters"
    /\ preferences.gender_target # "ANY"
    /\ preferences.competition # "ANY"
    /\ filtered # <<>>
    /\ Len(filtered) < Len(candidates)
    /\ \A i \in 1..Len(filtered) : MeetsAll(preferences, DataStore, filtered[i])
    /\ \E i \in 1..Len(candidates) :
          /\ RevenueOk(preferences, DataStore, candidates[i])
          /\ ~GenderOk(preferences, DataStore, candidates[i])

-----------------------------------------------------------------------------
(* Properties of the ranking pipeline *)

\* recommend_locations ran past its early return
Ranked == op = "recommend_locations" /\ DOMAIN normalized # {}

\* Pareto dominance over the compared objectives: nowhere worse, somewhere better
Dominance(a, b) ==
    /\ \A key \in ParetoKeys : RLeq(b[key], a[key])
    /\ \E key \in ParetoKeys : a[key] # b[key]

\* C7: find_optimal returns exactly the candidates that no other candidate
\* dominates.
C7_ParetoExact ==
    Ranked =>
        /\ SeqRange(pareto_optimal) \subseteq DOMAIN normalized
        /\ \A d \in DOMAIN normalized :
              d \in SeqRange(pareto_optimal)
              <=> ~\E e \in DOMAIN normalized \ {d} :
                      Dominance(normalized[e], normalized[d])

\* find_optimal left a dominated candidate out and kept two others
C7_Witness ==
    /\ Ranked
    /\ Len(pareto_optimal) >= 2
    /\ \E d \in DOMAIN normalized : d \notin SeqRange(pareto_optimal)

\* C8 (as stated): in the weights _adjust_weights_by_preferences returns,
\* SubwayPreference.REQUIRED puts the accessibility weight above its default
\* and PeakTime.MORNING puts the morning time-efficiency weight above its
\* default, whatever the other preferences are.
C8_PreferenceRaisesWeight ==
    Ranked =>
        /\ preferences.subway = "REQUIRED"
           => RLess(ConfigWeights.accessibility, weights.accessibility)
        /\ preferences.peak_time = "MORNING"
           => RLess(ConfigWeights.morning_efficiency, weights.morning_efficiency)

ScoreAt(i) == scored[i][2]

\* position of a district in the scored candidate list
Entry(dong) == CHOOSE k \in 1..Len(relaxed) : relaxed[k] = dong

\* C9 (as stated): the ranked list is in non-increasing score order and
\* candidates of equal score are in order of location name.
C9_SortedTiesByName ==
    Ranked =>
        \A i, j \in 1..Len(scored) :
            i < j => /\ RLeq(ScoreAt(j), ScoreAt(i))
                     /\ ScoreAt(i) = ScoreAt(j)
                        => dong_mapping[scored[i][1]].name
                           < dong_mapping[scored[j][1]].name

\* C9 (amended): the ranked list holds the scored candidates in
\* non-increasing score order, and candidates of equal score are in the
\* order in which they stood in the candidate list.
C9_SortedTiesByEntry ==
    Ranked =>
        /\ Len(scored) = Len(relaxed)
        /\ {scored[i][1] : i \in 1..Len(scored)} = SeqRange(relaxed)
        /\ \A i, j \in 1..Len(scored) :
              i < j => /\ RLeq(ScoreAt(j), ScoreAt(i))
                       /\ ScoreAt(i) = ScoreAt(j)
                          => Entry(scored[i][1]) < Entry(scored[j][1])

\* two candidates tie behind a candidate that entered the list after them
C9_Witness ==
    /\ Ranked
    /\ Len(scored) = 3
    /\ ScoreAt(2) = ScoreAt(3)
    /\ ScoreAt(1) # ScoreAt(2)
    /\ Entry(scored[1][1]) = 3

-----------------------------------------------------------------------------
(* Properties of the single filters and of dominates *)

\* the data store that load_data leaves when district d carries profile load[d]
LoadedStore(load) ==
    [sales |-> [d \in Dongs |-> SalesProfiles[load[d]]],
     stores |-> [d \in Dongs |-> StoreProfiles[load[d]]],
     subway |-> [d \in Dongs |-> SubwayProfiles[load[d]]],
     population |-> [d \in Dongs |-> PopulationProfiles[load[d]]]]

\* out holds members of inp only, each at most once
SubList(out, inp) ==
    /\ SeqRange(out) \subseteq SeqRange(inp)
    /\ \A i, j \in 1..Len(out) : i # j => out[i] # out[j]

\* C18: what a single filter returns is a subset of the candidate list it
\* was given: no candidate is added and none is duplicated.
C18_FilterReturnsSubset ==
    op = "apply_filters" =>
        \A name \in FilterSet :
            SubList(Filter(name, candidates, preferences, DataStore), candidates)

\* a REQUIRED subway filter dropped some candidates while the store holds a
\* district with subway access that is not among the candidates
C18_Witness ==
    /\ op = "apply_filters"
    /\ preferences.subway = "REQUIRED"
    /\ Len(candidates) >= 2
    /\ Len(_filter_by_subway(candidates, preferences, DataStore)) = 1
    /\ \E d \in Dongs \ SeqRange(candidates) : has_subway_access(DataStore, d)

\* C19: a filter whose preference is ANY / BALANCED / not REQUIRED returns
\* the candidate list unchanged, whatever the data store holds.
C19_UnsetFilterIsNoOp ==
    op = "apply_filters" =>
        \A name \in FilterSet :
            ~Applies(name, preferences) =>
                \A load \in [Dongs -> ProfileIds] :
                    Filter(name, candidates, preferences, LoadedStore(load))
                    = candidates

\* a call with every optional preference unset on candidates that the price,
\* gender and subway criteria would tell apart
C19_Witness ==
    /\ op = "apply_filters"
    /\ \A name \in FailOpenFilters \cup {"subway"} : ~Applies(name, preferences)
    /\ Len(candidates) >= 2
    /\ \E i, j \in 1..Len(candidates) :
          /\ sales_data[candidates[i]].avg_price <= 5000
          /\ sales_data[candidates[j]].avg_price > 5000
          /\ subway_data[candidates[i]] # subway_data[candidates[j]]
    /\ filtered # <<>>

\* values the two objectives outside the dominance test may take
OtherValues == {Zero, Half, One}

\* C20: dominates(A, B) holds iff A is at least B on the four compared
\* objectives and above B on one of them; the morning-efficiency and
\* weekday-ratio entries never change the result, and vectors equal on the
\* four objectives do not dominate each other.
C20_DominatesOnFourKeys ==
    Ranked =>
        \A d, e \in DOMAIN normalized :
            LET A == normalized[d]
                B == normalized[e]
            IN  /\ dominates(A, B) <=> Dominance(A, B)
                /\ \A x, y \in OtherValues :
                      dominates([A EXCEPT !.morning_efficiency = x,
                                          !.weekday_ratio = y],
                                [B EXCEPT !.morning_efficiency = y,
                                          !.weekday_ratio = x])
                      = dominates(A, B)
                /\ (\A key \in ParetoKeys : A[key] = B[key])
                   => ~dominates(A, B) /\ ~dominates(B, A)

\* one district dominates another although it is behind on morning
\* efficiency, and two further districts are equal on the four objectives
C20_Witness ==
    /\ Ranked
    /\ \E d, e \in DOMAIN normalized :
          /\ dominates(normalized[d], normalized[e])
          /\ RLess(normalized[d].morning_efficiency,
                   normalized[e].morning_efficiency)
    /\ \E d, e \in DOMAIN normalized :
          /\ d # e
          /\ \A key \in ParetoKeys : normalized[d][key] = normalized[e][key]

-----------------------------------------------------------------------------
(* Properties of add_edge (SpecEdges) *)

\* the network as a caller can observe it
Network == <<graph, residual_graph, nodes, edge_count, total_capacity>>

\* the step is an add_edge call
AddEdgeCalled == add_calls' = add_calls + 1

\* C12: add_edge(u, v, capacity) with capacity <= 0 is a no-op: graph,
\* residual_graph, nodes, edge_count and total_capacity are left unchanged;
\* so no entry of graph ever holds a capacity that is not positive (an
\* entry of 0 in the model is an absent entry).
C12_NonPositiveIsNoOp ==
    /\ [](\A u \in Node, v \in Node : graph[u][v] >= 0)
    /\ [][(AddEdgeCalled /\ last_add'[3] <= 0) => UNCHANGED Network]_vars

C12_Witness ==
    /\ add_calls >= 2
    /\ last_add[3] <= 0
    /\ edge_count >= 1

\* C13 as stated: an add_edge call with a negative capacity ends in an error
\* the caller sees.
C13_NegativeCapacityRejected ==
    (add_result # "none" /\ last_add[3] < 0) => add_result = "raised"

\* C13 amended: an add_edge call with a negative capacity returns normally
\* and leaves the network as it was (the edge is dropped silently).
C13_NegativeCapacityDropped ==
    [][(AddEdgeCalled /\ last_add'[3] < 0)
          => (add_result' = "returned" /\ UNCHANGED <<Network, adj>>)]_vars

C13_Witness ==
    /\ last_add[3] < 0
    /\ add_result = "returned"
    /\ nodes # {}

\* C14: add_edge is idempotent (the same call made a second time leaves
\* graph, residual_graph, nodes, edge_count and total_capacity as the first
\* call left them), and inserting u->v never creates the graph edge v->u.
C14_InsertionIdempotent ==
    [][AddEdgeCalled =>
          /\ (last_add' = last_add => UNCHANGED Network)
          /\ (last_add'[1] # last_add'[2] =>
                 graph'[last_add'[2]][last_add'[1]]
                     = graph[last_add'[2]][last_add'[1]])]_vars

-----------------------------------------------------------------------------
(* Properties of the builders and of collect_data (SpecCollect) *)

Built == builder # "none"

LocationNames == {locations[i].area_name : i \in 1..Len(locations)}

\* C11 as stated: the network built from an empty location list has SOURCE
\* and SINK among its nodes and no edge, and edmonds_karp('SOURCE', 'SINK')
\* returns 0 with an empty flow assignment.
C11_EmptyListKeepsTerminals ==
    (Built /\ locations = <<>>) =>
        /\ {"SOURCE", "SINK"} \subseteq nodes
        /\ edge_count = 0
        /\ graph = ZeroMatrix
        /\ (ek_pc = "done" => max_flow = 0 /\ flow_dict = ZeroMatrix)

\* C11 amended: the network built from an empty location list has no node
\* at all (SOURCE and SINK are not among its nodes) and no edge, and
\* edmonds_karp('SOURCE', 'SINK') on it returns 0 with an empty flow
\* assignment.
C11_EmptyListEmptyNetwork ==
    (Built /\ locations = <<>>) =>
        /\ nodes = {}
        /\ edge_count = 0
        /\ total_capacity = 0
        /\ graph = ZeroMatrix
        /\ (ek_pc = "done" => max_flow = 0 /\ flow_dict = ZeroMatrix)

C11_Witness ==
    /\ builder = "estimate"
    /\ locations = <<>>
    /\ ek_pc = "done"
    /\ calls >= 1

C17_BuildAfterJoin ==
    /\ Cardinality(Running) <= 5
    /\ collect_pc = "fetching" =>
          (builder = "none" /\ edge_count = 0 /\ calls = 0 /\ ek_pc = "build")
    /\ collect_pc = "returned" =>
          \A a \in SeqRange(AreaPool) :
             task[a] \notin {"queued", "running", "data", "none", "exception"}

C17_Witness ==
    /\ collect_pc = "returned"
    /\ Len(areas) > MaxWorkers
    /\ Len(location_data) >= 2
    /\ builder = "estimate"
    /\ ek_pc = "done"

-----------------------------------------------------------------------------
(* Properties of _calculate_target_match (SpecTarget) *)

\* C16: with no requested segment, or none the method knows, the
\* target-match score is the neutral value 50, whatever the demographic
\* breakdown.
C16_NoSegmentGivesFifty ==
    (target_match.called /\ targets \cap SeqRange(Segments) = {}) =>
        target_match.value = Rat(50, 1)

-----------------------------------------------------------------------------
(* Properties of the choice of the eligible set (SpecEligible) *)

\* C21: when find_optimal returns fewer than 20 districts, the list handed
\* to the filter chain is the list of all districts with objectives; when it
\* returns 20 or more, it is the list find_optimal returned.
C21_ParetoFallback ==
    eligible.chosen =>
        /\ Len(found_optimal) <= 19 => eligible.list = all_keys
        /\ Len(found_optimal) >= 20 => eligible.list = found_optimal

\* a Pareto set of exactly 20 of 21 districts was kept as it is
C21_Witness ==
    /\ eligible.chosen
    /\ Len(found_optimal) = 20
    /\ Len(all_keys) = 21
    /\ eligible.list = found_optimal

-----------------------------------------------------------------------------
(* Properties of normalize and of the weights (SpecRec) *)

\* the values the districts with objectives have on a key before normalize
RawValues(key) ==
    LET raw == _calculate_all_objectives(DataStore, inflow)
    IN  {raw[d][key] : d \in DOMAIN raw}

\* C22: normalize maps every objective value of every location into [0, 1]
\* by min-max rescaling per key, the key's minimum to 0 and its maximum to
\* 1; a key on which all locations tie (a single location included) is 0.5
\* for every location; and the raw vectors are as they were before the call.
C22_MinMaxRescaling ==
    Ranked =>
        LET raw == _calculate_all_objectives(DataStore, inflow) IN
        /\ raw_objectives = raw
        /\ DOMAIN normalized = DOMAIN raw
        /\ \A key \in ObjectiveSet :
              LET lo == RMinOf(RawValues(key))
                  hi == RMaxOf(RawValues(key))
              IN  \A d \in DOMAIN raw :
                     LET x == normalized[d][key] IN
                     /\ RLeq(Zero, x) /\ RLeq(x, One)
                     /\ lo = hi => x = Half
                     /\ lo # hi =>
                           /\ raw[d][key] = lo => x = Zero
                           /\ raw[d][key] = hi => x = One
                           /\ RMul(x, RSub(hi, lo)) = RSub(raw[d][key], lo)

\* several districts were normalized: on one key they tie, on another they
\* do not
C22_Witness ==
    /\ Ranked
    /\ Cardinality(DOMAIN normalized) >= 2
    /\ \E key \in ObjectiveSet :
          /\ \E d \in DOMAIN normalized : normalized[d][key] = Zero
          /\ \E d \in DOMAIN normalized : normalized[d][key] = One
    /\ \E key \in ObjectiveSet : \A d \in DOMAIN normalized : normalized[d][key] = Half

\* C23: normalize applied to its own output returns that output.
C23_NormalizeIdempotent ==
    Ranked => normalize(normalized) = normalized

\* normalize ran on three districts with a key that spans 0..1 through a
\* value in between
C23_Witness ==
    /\ Ranked
    /\ Cardinality(DOMAIN normalized) >= 2
    /\ \E key \in ObjectiveSet :
          /\ \E d \in DOMAIN normalized : normalized[d][key] = Zero
          /\ \E d \in DOMAIN normalized : normalized[d][key] = One
          /\ \E d \in DOMAIN normalized :
                normalized[d][key] \notin {Zero, One, Half}

\* C24: for every combination of the subway, peak-time and weekday
\* preferences the weights _adjust_weights_by_preferences returns are >= 0
\* and sum to 1, and Config.weights is left as configured.
C24_WeightsSumToOne ==
    /\ Ranked =>
          /\ \A key \in ObjectiveSet : RLeq(Zero, weights[key])
          /\ RSumWeights(weights, Len(ObjectiveNames)) = One
          /\ config_weights = ConfigWeights
    /\ op = "none" =>
       \A s \in SubwayPreference, t \in PeakTime, d \in WeekdayPreference :
          LET p == [UserPreferences EXCEPT !.subway = s, !.peak_time = t,
                                           !.weekday_preference = d]
              w == _adjust_weights_by_preferences(config_weights, p)
          IN  /\ \A key \in ObjectiveSet : RLeq(Zero, w[key])
              /\ RSumWeights(w, Len(ObjectiveNames)) = One

\* a ranking under weights that the adjustment had to rescale
C24_Witness ==
    /\ Ranked
    /\ preferences.subway = "REQUIRED"
    /\ preferences.weekday_preference = "WEEKDAY"
    /\ weights # ConfigWeights
    /\ weights.accessibility # Rat(25, 100)

\* the recommended district meets the constraints the filter chain enforces
\* strictly
MeetsHardConstraints(p, ds, dong) ==
    /\ RevenueOk(p, ds, dong)
    /\ MinStoresOk(p, ds, dong)
    /\ p.subway = "REQUIRED" => SubwayOk(p, ds, dong)

\* C29 as stated: every location recommend_locations returns has its revenue
\* within [min_revenue, max_revenue], at least min_stores stores and, when
\* subway is REQUIRED, subway access; also when fewer than top_n candidates
\* survive the filters.
C29_RecommendationsMeetHardConstraints ==
    op = "recommend_locations" =>
        \A i \in 1..Len(recommendations) :
            MeetsHardConstraints(preferences, DataStore,
                                 recommendations[i].dong_code)

\* C29 amended: when at least top_n candidates survive the filter chain,
\* every returned location meets the three constraints; when fewer survive,
\* the constraints are dropped and every returned location is one of the
\* eligible districts with a store count of at least 1.
C29_HardConstraintsUnlessRelaxed ==
    op = "recommend_locations" =>
        \A i \in 1..Len(recommendations) :
            LET dong == recommendations[i].dong_code IN
            /\ Len(filtered) >= top_n =>
                  MeetsHardConstraints(preferences, DataStore, dong)
            /\ Len(filtered) < top_n =>
                  /\ InList(dong, candidates)
                  /\ get_store_count(DataStore, dong) >= 1

\* fewer candidates than top_n survived, and a district without the
\* required subway access was recommended next to one that has it
C29_Witness ==
    /\ op = "recommend_locations"
    /\ Len(filtered) < top_n
    /\ preferences.subway = "REQUIRED"
    /\ \E i \in 1..Len(recommendations) :
          ~SubwayOk(preferences, DataStore, recommendations[i].dong_code)
    /\ \E i \in 1..Len(recommendations) :
          MeetsHardConstraints(preferences, DataStore,
                               recommendations[i].dong_code)

-----------------------------------------------------------------------------
(* Properties of the collected list (SpecCollect) *)

\* the records of the area in the collected list
RecordsOf(a) == {i \in 1..Len(location_data) : location_data[i].area_name = a}

\* C30: whatever the order in which the fetches start, end and are taken,
\* the list collect_data returns holds exactly one record, the fetched one,
\* for every requested area whose fetch delivered data, and none for any
\* other area; a fetch that raises or delivers nothing does not end the
\* collection and does not touch the records of the others.
C30_OneRecordPerFetchedArea ==
    /\ \A a \in SeqRange(AreaPool) :
          /\ Cardinality(RecordsOf(a)) = IF task[a] = "taken_data" THEN 1 ELSE 0
          /\ \A i \in RecordsOf(a) : location_data[i] = Fetched(a)
    /\ collect_pc = "returned" =>
          \A i \in 1..Len(areas) : task[areas[i]] \in TakenStates

\* all six fetches were taken: one raised, one delivered nothing, and the
\* records came in another order than the areas were submitted in
C30_Witness ==
    /\ collect_pc = "returned"
    /\ Len(areas) = Len(AreaPool)
    /\ \E a \in SeqRange(AreaPool) : task[a] = "taken_exception"
    /\ task["A"] = "taken_none"
    /\ Len(location_data) = 3
    /\ location_data[1].area_name = "D"

====
